---- MODULE Spec2Model ----
(***************************************************************************)
(* hyperion/grid/voropp_wrap.cc: the C entry point hyperion_voropp_wrap,   *)
(* its helper add_walls and the two file-scope statics error_message and   *)
(* wall_ptr.                                                               *)
(*                                                                         *)
(* A call is a sequence of steps (pc) over the locals of one invocation    *)
(* (call[t]) and the caller's out-parameters (out[t]); the statics and the *)
(* heap of wall objects are shared by every call of the process.  voro++   *)
(* (container, particle_order, c_loop_order, voronoicell_neighbor) is the  *)
(* external cell-geometry engine: what it returns for a cell is an input   *)
(* drawn at the step that asks for it.  The diagnostic printing under      *)
(* `verbose` changes no state and is left out.                             *)
(***************************************************************************)
EXTENDS Integers, Sequences, FiniteSets, TLC

(***************************************************************************)
(* Bounds of the explored inputs.                                          *)
(***************************************************************************)
MaxSites == 3
MaxNb == 1
MaxVerts == 2
MaxCalls == 2

(***************************************************************************)
(* Program constants.                                                      *)
(***************************************************************************)
particle_block == 5
NeighPad == -10
\* std::numeric_limits<double>::quiet_NaN(), encoded as a number no
\* coordinate of the model takes.
QuietNaN == -999
\* The indeterminate content of freshly malloc'ed memory, encoded as a number
\* no datum of the model takes.
Garbage == -777
\* The largest value of the C type int (32 bits).
IntMax == 2147483647
IntMin == -IntMax - 1

Threads == {1, 2}

(***************************************************************************)
(* Small helpers.                                                          *)
(***************************************************************************)
Max2(a, b) == IF a >= b THEN a ELSE b

Pow(b, e) == IF e <= 0 THEN 1 ELSE LET p[i \in 0..e] == IF i = 0 THEN 1 ELSE b * p[i - 1] IN p[e]

\* s with the elements of w written at 0-based offset off (std::copy to a
\* pointer into the middle of a buffer); the caller checks the bounds.
WriteAt(s, off, w) ==
    [i \in 1..Len(s) |-> IF i > off /\ i <= off + Len(w) THEN w[i - off] ELSE s[i]]

\* s with v written to the 0-based half-open range [from, to) (std::fill).
FillRange(s, from, to, v) ==
    [i \in 1..Len(s) |-> IF i > from /\ i <= to THEN v ELSE s[i]]

FirstN(s, n) == [i \in 1..n |-> s[i]]

(***************************************************************************)
(* Grid sizing, lines 122-136.                                             *)
(*                                                                         *)
(* The doubles of this computation are kept exact.  An axis extent         *)
(* (max - min) is zero or a power of two 2^e; nblocks = nsites / 5 is kept *)
(* as nsites.  With s = (ex + ey + ez) / 3 the product                     *)
(* extent / vol_edge * block_edge is 2^(e - s) * cbrt(nsites / 5), or one  *)
(* of IEEE's special values when vol_edge is 0.                            *)
(***************************************************************************)
ZeroExt == [zero |-> TRUE, e |-> 0]

PowExt(e) == [zero |-> FALSE, e |-> e]

\* vol_edge = cbrt(dx * dy * dz), line 129: zero, or 2^s.
vol_edge(dx, dy, dz) ==
    IF dx.zero \/ dy.zero \/ dz.zero THEN ZeroExt
    ELSE PowExt((dx.e + dy.e + dz.e) \div 3)

\* d / vol_edge * block_edge as a double: "nan", "inf", or the finite value
\* 2^k * cbrt(n / 5).
AxisProduct(d, ve, nsites) ==
    IF ve.zero
    THEN IF d.zero THEN [kind |-> "nan", k |-> 0, n |-> 0]
         ELSE IF nsites = 0 THEN [kind |-> "nan", k |-> 0, n |-> 0]
         ELSE [kind |-> "inf", k |-> 0, n |-> 0]
    ELSE IF d.zero \/ nsites = 0 THEN [kind |-> "fin", k |-> 0, n |-> 0]
    ELSE [kind |-> "fin", k |-> d.e - ve.e, n |-> nsites]

\* floor(2^k * cbrt(n / 5)) for the scalings the model's inputs produce:
\* the largest m with 5 * m^3 <= 8^k * n.  -1 stands for "not below 2^31".
SmallScale == 4
IntBits == 32
FloorScaledCbrt(k, n) ==
    IF n = 0 THEN 0
    ELSE IF k >= IntBits THEN -1
    ELSE IF k < -SmallScale THEN 0
    ELSE IF k >= 0
    THEN LET cap == Pow(2, k) * n
             ok(m) == particle_block * m * m * m <= Pow(8, k) * n
         IN CHOOSE m \in 0..cap : ok(m) /\ (m = cap \/ ~ok(m + 1))
    ELSE LET ok(m) == particle_block * m * m * m * Pow(8, -k) <= n
         IN CHOOSE m \in 0..n : ok(m) /\ (m = n \/ ~ok(m + 1))

\* The inputs FloorScaledCbrt is exact on.
Scalable(k, n) == n = 0 \/ k <= SmallScale \/ k >= IntBits

\* The values (int)x can take.  Converting a NaN, an infinity or a value
\* outside the range of int is undefined: cvttsd2si yields INT_MIN, a
\* saturating conversion yields INT_MAX (0 for a NaN).
IntCast(p) ==
    IF p.kind = "fin" /\ FloorScaledCbrt(p.k, p.n) >= 0
    THEN {FloorScaledCbrt(p.k, p.n)}
    ELSE {IntMin, 0, IntMax}

\* v + 1 in int: INT_MAX + 1 overflows (undefined; wraps on the usual builds).
PlusOne(v) == IF v = IntMax THEN IntMin ELSE v + 1

\* The values n_axis = (int)(d / vol_edge * block_edge) + 1 can take,
\* lines 134-136.
GridAxis(d, ve, nsites) == {PlusOne(v) : v \in IntCast(AxisProduct(d, ve, nsites))}

(***************************************************************************)
(* The cell-geometry engine (voro++), as the wrapper sees it.  A cell is   *)
(* what compute_cell / neighbors / volume / vertices return for one        *)
(* particle: the model draws the number of neighbours and of vertices and  *)
(* fixes their values by the particle's id.                                *)
(***************************************************************************)
\* The id voro++ gives a wall_sphere / wall_cylinder built without a w_id.
WallId == -99

\* The j-th neighbour id of particle id: another particle, the wall (or a
\* face of the domain box, -1..-6), then faces of the domain box.
EngineNeighbour(id, j, nsites, walled) ==
    IF j = 1 THEN (IF nsites > 1 THEN (id + 1) % nsites ELSE -1)
    ELSE IF j = 2 THEN (IF walled THEN WallId ELSE -(1 + (id % 6)))
    ELSE -(1 + ((id + j) % 6))

\* The j-th vertex of the cell of particle id, as its three coordinates.
EngineVertex(id, j) == <<(id + j) % 3, (id + 2 * j) % 3, (id + j * j) % 3>>

EngineVolume(id) == id + 1

EngineCell(id, nn, nv, nsites, walled) ==
    [nb |-> [j \in 1..nn |-> EngineNeighbour(id, j, nsites, walled)],
     vx |-> [i \in 1..(3 * nv) |-> EngineVertex(id, (i + 2) \div 3)[((i - 1) % 3) + 1]],
     vol |-> EngineVolume(id)]

(***************************************************************************)
(* State.                                                                  *)
(***************************************************************************)
VARIABLES
    host,           \* how the host drives the library: "call", "calls", "threads", "grid"
    error_message,  \* static std::string error_message, line 64
    wall_ptr,       \* static std::auto_ptr<wall> wall_ptr, line 69: 0 or a heap index
    heap,           \* the wall objects created with new so far
    call,           \* per thread: the arguments and locals of its invocation
    out,            \* per thread: the memory behind the caller's out-parameters
    ret,            \* per thread: the value the invocation returned
    ncall,          \* per thread: invocations started
    hist,           \* per thread: what the cell loop of the invocation did (history)
    grid            \* grid sizing on its own: its inputs and result

vars == <<host, error_message, wall_ptr, heap, call, out, ret, ncall, hist, grid>>

\* A pointer to a malloc'ed buffer (or NULL) and the buffer's contents.
NullPtr == [ok |-> FALSE, data |-> <<>>]

Malloc(n, success) ==
    IF success THEN [ok |-> TRUE, data |-> [i \in 1..n |-> Garbage]] ELSE NullPtr

\* An out-parameter's target: untouched, or written with val.
Untouched == [set |-> FALSE, val |-> <<>>]

Written(v) == [set |-> TRUE, val |-> v]

NoOutputs ==
    [neighbours |-> Untouched, max_nn |-> Untouched, volumes |-> Untouched,
     bb_min |-> Untouched, bb_max |-> Untouched, vertices |-> Untouched,
     max_nv |-> Untouched]

NoCon == [built |-> FALSE, grid |-> <<>>, ids |-> <<>>, walls |-> <<>>]

\* The locals of an invocation before they are constructed and after they
\* are destroyed.
NoLocals ==
    [grid |-> <<>>, n_list |-> <<>>, vertices_list |-> <<>>, vols |-> NullPtr, bb_m |-> NullPtr,
     bb_M |-> NullPtr, con |-> NoCon, po |-> <<>>, vl |-> 0, tmp_v |-> <<>>,
     neighs |-> NullPtr]

\* The locals with nx, ny, nz computed (lines 134-136).
Sized(nx, ny, nz) == [NoLocals EXCEPT !.grid = <<nx, ny, nz>>]

NoArgs ==
    [nsites |-> 0, start |-> 0, end |-> 0, with_vertices |-> FALSE, wall_str |-> "",
     wall_args_arr |-> <<>>, n_wall_args |-> 0, ncells |-> 0]

IdleFrame == [pc |-> "idle", exc |-> "", args |-> NoArgs, loc |-> NoLocals]

NoHist == [events |-> <<>>, emptyRead |-> FALSE]

NoGrid == [pc |-> "off", dx |-> ZeroExt, dy |-> ZeroExt, dz |-> ZeroExt, nsites |-> 0,
           nx |-> 0, ny |-> 0, nz |-> 0]

InitBase(h) ==
    /\ host = h
    /\ error_message = <<>>
    /\ wall_ptr = 0
    /\ heap = <<>>
    /\ call = [t \in Threads |-> IdleFrame]
    /\ out = [t \in Threads |-> NoOutputs]
    /\ ret = [t \in Threads |-> "none"]
    /\ ncall = [t \in Threads |-> 0]
    /\ hist = [t \in Threads |-> NoHist]

InitWith(h) == InitBase(h) /\ grid = NoGrid

\* One invocation in a fresh process.
Init == InitWith("call")

\* One thread invoking the library MaxCalls times in a row.
InitSeq == InitWith("calls")

\* Two threads, each invoking the library once on its own range.
InitConc == InitWith("threads")

(***************************************************************************)
(* The arguments the host passes.                                          *)
(***************************************************************************)
CallsAllowed(t) ==
    IF host = "call" THEN (IF t = 1 THEN 1 ELSE 0)
    ELSE IF host = "calls" THEN (IF t = 1 THEN MaxCalls ELSE 0)
    ELSE IF host = "threads" THEN 1
    ELSE 0

\* 0 <= start < end <= nsites.  Concurrent invocations take disjoint ranges
\* of the same particle set.
Ranges(t) ==
    IF host = "threads"
    THEN {[nsites |-> Cardinality(Threads), start |-> t - 1, end |-> t]}
    ELSE IF host = "calls" THEN {[nsites |-> 1, start |-> 0, end |-> 1]}
    ELSE {[nsites |-> n, start |-> s, end |-> e] :
            <<n, s, e>> \in {x \in (1..MaxSites) \X (0..MaxSites) \X (1..MaxSites) :
                              x[2] < x[3] /\ x[3] <= x[1]}}

WallNames == {"", "sphere", "cylinder", "plane"}

\* A wall parameter array of n entries whose last one (the radius of a
\* sphere of 4, of a cylinder of 7) is r.
WallArgs(n, r) == [i \in 1..n |-> IF i = n THEN r ELSE 0]

WallArrays == {WallArgs(n, r) : <<n, r>> \in {0, 4, 7} \X {-1, 0, 1}}

\* A sphere or a cylinder comes with any of the arrays; no wall ("") comes
\* with no parameters, and a name add_walls does not know with parameters
\* it would reject for a sphere or a cylinder (a radius of -1).
WallInputs ==
    {w \in WallNames \X WallArrays :
        \/ w[1] \in {"sphere", "cylinder"}
        \/ w[1] = "" /\ w[2] = <<>>
        \/ w[1] = "plane" /\ Len(w[2]) > 0 /\ w[2][Len(w[2])] = -1}

VertexFlags == IF host = "call" THEN BOOLEAN ELSE {FALSE}

\* The numbers of neighbours and of vertices the engine may return for a cell.
NeighbourCounts == IF host = "call" THEN 0..MaxNb ELSE {1}

VertexCounts == IF host = "call" THEN 0..MaxVerts ELSE {1}

\* Whether an allocation may fail.
AllocOutcomes == IF host = "call" THEN BOOLEAN ELSE {TRUE}

Running == \A u \in Threads : call[u].pc # "crashed"

UnitExt == PowExt(0)

(***************************************************************************)
(* hyperion_voropp_wrap, lines 115-139: entry, grid sizing, ncells.  The   *)
(* call model keeps the domain a cube.                                     *)
(***************************************************************************)
Call(t) ==
    /\ Running
    /\ call[t].pc \in {"idle", "returned"}
    /\ ncall[t] < CallsAllowed(t)
    /\ \E r \in Ranges(t), wv \in VertexFlags, w \in WallInputs :
        \E nx \in GridAxis(UnitExt, vol_edge(UnitExt, UnitExt, UnitExt), r.nsites) :
            call' = [call EXCEPT ![t] =
                        [pc |-> "alloc", exc |-> "",
                         args |-> [nsites |-> r.nsites, start |-> r.start, end |-> r.end,
                                   with_vertices |-> wv, wall_str |-> w[1],
                                   wall_args_arr |-> w[2], n_wall_args |-> Len(w[2]),
                                   ncells |-> r.end - r.start],
                         loc |-> Sized(nx, nx, nx)]]
    /\ out' = [out EXCEPT ![t] = NoOutputs]
    /\ ret' = [ret EXCEPT ![t] = "none"]
    /\ ncall' = [ncall EXCEPT ![t] = @ + 1]
    /\ hist' = [hist EXCEPT ![t] = NoHist]
    /\ UNCHANGED <<host, error_message, wall_ptr, heap, grid>>

\* An exception leaves the try block: the locals are destroyed (ptr_raii
\* frees the buffers, the container goes) and the handler of line 267 runs next.
Throw(f, what) == [f EXCEPT !.pc = "catch", !.exc = what, !.loc = NoLocals]

(***************************************************************************)
(* Lines 151-163: the output quantities.  The vectors throw               *)
(* std::bad_alloc when memory runs out; std::malloc returns NULL, which    *)
(* nothing checks.                                                         *)
(***************************************************************************)
PrepareOutputs(t) ==
    /\ Running
    /\ call[t].pc = "alloc"
    /\ \E vec \in AllocOutcomes, m1 \in AllocOutcomes, m2 \in AllocOutcomes, m3 \in AllocOutcomes :
        LET f == call[t]
            n == f.args.ncells
        IN call' = [call EXCEPT ![t] =
                IF ~vec THEN Throw(f, "std::bad_alloc")
                ELSE [f EXCEPT !.pc = "fill",
                               !.loc.n_list = [i \in 1..n |-> <<>>],
                               !.loc.vertices_list =
                                   IF f.args.with_vertices THEN [i \in 1..n |-> <<>>] ELSE <<>>,
                               !.loc.vols = Malloc(n, m1),
                               !.loc.bb_m = Malloc(n * 3, m2),
                               !.loc.bb_M = Malloc(n * 3, m3)]]
    /\ UNCHANGED <<host, error_message, wall_ptr, heap, out, ret, ncall, hist, grid>>

(***************************************************************************)
(* Lines 165-176: the container and its particles.  Every particle is put  *)
(* into the container; those of [start, end) are also recorded in po.      *)
(* put allocates with new, which throws std::bad_alloc when memory runs    *)
(* out.                                                                    *)
(***************************************************************************)
Tagged(i, start, end) == i >= start /\ i < end

PopulateContainer(t) ==
    /\ Running
    /\ call[t].pc = "fill"
    /\ \E put \in AllocOutcomes :
       LET f == call[t]
           n == f.args.nsites
           tagged == {i \in 0..(n - 1) : Tagged(i, f.args.start, f.args.end)}
           \* the tagged ids in the order of insertion (ascending)
           order[k \in 0..n] ==
               IF k = 0 THEN <<>>
               ELSE IF (k - 1) \in tagged THEN Append(order[k - 1], k - 1)
               ELSE order[k - 1]
       IN call' = [call EXCEPT ![t] =
               IF ~put THEN Throw(f, "std::bad_alloc")
               ELSE [f EXCEPT !.pc = "walls",
                              !.loc.con.built = TRUE,
                              !.loc.con.grid = f.loc.grid,
                              !.loc.con.ids = [i \in 1..n |-> i - 1],
                              !.loc.po = order[n]]]
    /\ UNCHANGED <<host, error_message, wall_ptr, heap, out, ret, ncall, hist, grid>>

(***************************************************************************)
(* add_walls, lines 72-112.                                                *)
(***************************************************************************)
\* SphereError with the radius check of line 93 written < instead of <=.
SphereErrorStrict(n_wall_args, wall_args_arr) ==
    IF n_wall_args # 4
    THEN "invalid number of arguments for a 'sphere' wall, exactly 4 are needed"
    ELSE IF wall_args_arr[4] < 0
    THEN "the radius of a 'sphere' wall must be strictly positive"
    ELSE ""

\* The checks of a 'sphere' wall, lines 90-95: the message thrown, or "".
SphereError(n_wall_args, wall_args_arr) ==
    IF n_wall_args # 4
    THEN "invalid number of arguments for a 'sphere' wall, exactly 4 are needed"
    ELSE IF wall_args_arr[4] <= 0
    THEN "the radius of a 'sphere' wall must be strictly positive"
    ELSE ""

\* The checks of a 'cylinder' wall, lines 101-106.
CylinderError(n_wall_args, wall_args_arr) ==
    IF n_wall_args # 7
    THEN "invalid number of arguments for a 'cylinder' wall, exactly 7 are needed"
    ELSE IF wall_args_arr[7] <= 0
    THEN "the radius of a 'cylinder' wall must be strictly positive"
    ELSE ""

\* What add_walls throws for its arguments, or "".
WallError(a) ==
    IF a.wall_str = "sphere" THEN SphereError(a.n_wall_args, a.wall_args_arr)
    ELSE IF a.wall_str = "cylinder" THEN CylinderError(a.n_wall_args, a.wall_args_arr)
    ELSE ""

\* wall_ptr.reset(p), std::auto_ptr: the object held so far is deleted.
Deleted(h, p) == IF p = 0 THEN h ELSE [h EXCEPT ![p].live = FALSE]

\* The cell loop starts when vl.start() finds a tagged particle, line 191.
LoopEntry(po) == IF Len(po) = 0 THEN "pack_nn" ELSE "loop"

\* Lines 88-96 and 99-109: the checks, then wall_ptr.reset(new wall_...).
\* Any other name matches neither strcmp and adds nothing.
add_walls(t) ==
    /\ Running
    /\ call[t].pc = "walls"
    /\ LET f == call[t]
           a == f.args
           what == WallError(a)
       IN IF a.wall_str \notin {"sphere", "cylinder"}
          THEN /\ call' = [call EXCEPT ![t] = [f EXCEPT !.pc = LoopEntry(f.loc.po), !.loc.vl = 1]]
               /\ UNCHANGED <<wall_ptr, heap>>
          ELSE IF what # ""
          THEN /\ call' = [call EXCEPT ![t] = Throw(f, what)]
               /\ UNCHANGED <<wall_ptr, heap>>
          ELSE /\ heap' = Append(Deleted(heap, wall_ptr),
                                 [kind |-> a.wall_str, args |-> a.wall_args_arr,
                                  by |-> t, call |-> ncall[t], live |-> TRUE])
               /\ wall_ptr' = Len(heap) + 1
               /\ call' = [call EXCEPT ![t] = [f EXCEPT !.pc = "attach"]]
    /\ UNCHANGED <<host, error_message, out, ret, ncall, hist, grid>>

\* Lines 97 and 110: con.add_wall(wall_ptr.get()), a second read of the static.
add_wall(t) ==
    /\ Running
    /\ call[t].pc = "attach"
    /\ LET f == call[t]
       IN call' = [call EXCEPT ![t] =
                      [f EXCEPT !.pc = LoopEntry(f.loc.po), !.loc.vl = 1,
                                !.loc.con.walls = Append(@, wall_ptr)]]
    /\ UNCHANGED <<host, error_message, wall_ptr, heap, out, ret, ncall, hist, grid>>

(***************************************************************************)
(* The cell loop, lines 191-222: one iteration.                            *)
(***************************************************************************)
\* LocalIndex without the subtraction of line 195.
LocalIndexGlobal(id, start) == id

\* idx -= start, line 195.
LocalIndex(id, start) == id - start

LessThan(a, b) == a < b

GreaterThan(a, b) == a > b

\* Lines 206-217 for one of tmp_min / tmp_max: start from the triplet read
\* at begin(), then fold the vertices 1 .. size/3 - 1.
BoxFold(v, first, lower) ==
    LET last == Max2(Len(v) \div 3 - 1, 0)
        Better(a, b) == IF lower THEN LessThan(a, b) ELSE GreaterThan(a, b)
    IN [j \in 1..3 |->
          LET m[i \in 0..last] ==
                  IF i = 0 THEN first[j]
                  ELSE IF Better(v[i * 3 + j], m[i - 1]) THEN v[i * 3 + j] ELSE m[i - 1]
          IN m[last]]

\* The iteration completed for `cell`, the box folded from the triplet `first`.
CellDone(f, idx, cell, first) ==
    [f EXCEPT !.loc.n_list[idx + 1] = cell.nb,
              !.loc.vols.data[idx + 1] = cell.vol,
              !.loc.vertices_list = IF f.args.with_vertices THEN [@ EXCEPT ![idx + 1] = cell.vx] ELSE @,
              \* tmp_v is kept as its storage: an empty result leaves the
              \* coordinates of the previous cell in place.
              !.loc.tmp_v = IF f.args.with_vertices \/ cell.vx = <<>> THEN @ ELSE cell.vx,
              !.loc.bb_m.data = WriteAt(@, idx * 3, BoxFold(cell.vx, first, TRUE)),
              !.loc.bb_M.data = WriteAt(@, idx * 3, BoxFold(cell.vx, first, FALSE)),
              !.loc.vl = @ + 1,
              !.pc = IF f.loc.vl + 1 > Len(f.loc.po) THEN "pack_nn" ELSE "loop"]

\* The outcomes of one iteration for the cell the engine returned:
\*  [f: the frame after it, ev: the slot the iteration wrote to (n_list[idx],
\*   line 200, is its first write), emptyRead: whether lines 206-207 read a
\*   triplet from an empty vertex list].
\* Undefined behaviour is a choice of outcomes: a write through a NULL or
\* out-of-range pointer and a use of a deleted wall end the process; the
\* read of begin() .. begin() + 3 of an empty vector ends it or, when the
\* vector is the reused tmp_v, yields the coordinates its storage still
\* holds.
CellOutcomes(f, cell, dangling) ==
    LET a == f.args
        l == f.loc
        id == l.po[l.vl]
        idx == LocalIndex(id, a.start)
        attempt == <<[idx |-> idx, id |-> id, nb |-> cell.nb, vx |-> cell.vx, vol |-> cell.vol]>>
        crash(r) == [f |-> [f EXCEPT !.pc = "crashed"], ev |-> <<>>, emptyRead |-> r]
        done(first, r) ==
            [f |-> CellDone(f, idx, cell, first),
             ev |-> attempt,
             emptyRead |-> r]
    IN IF idx \notin 0..(a.ncells - 1)
       THEN {[f |-> [f EXCEPT !.pc = "crashed"], ev |-> attempt, emptyRead |-> FALSE]}
       ELSE IF ~l.vols.ok THEN {crash(FALSE)}
       ELSE (IF dangling THEN {crash(FALSE)} ELSE {}) \cup
            (IF cell.vx = <<>>
             THEN {crash(TRUE)} \cup
                  (IF ~a.with_vertices /\ Len(l.tmp_v) >= 3 /\ l.bb_m.ok /\ l.bb_M.ok
                   THEN {done(FirstN(l.tmp_v, 3), TRUE)} ELSE {})
             ELSE IF ~l.bb_m.ok \/ ~l.bb_M.ok THEN {crash(FALSE)}
             ELSE {done(FirstN(cell.vx, 3), FALSE)})

ComputeCell(t) ==
    /\ Running
    /\ call[t].pc = "loop"
    /\ LET f == call[t]
           walls == f.loc.con.walls
           dangling == \E i \in 1..Len(walls) : ~heap[walls[i]].live
       IN \E nn \in NeighbourCounts, nv \in VertexCounts :
            \E o \in CellOutcomes(f, EngineCell(f.loc.po[f.loc.vl], nn, nv, f.args.nsites,
                                             Len(walls) > 0), dangling) :
                /\ call' = [call EXCEPT ![t] = o.f]
                /\ hist' = [hist EXCEPT ![t] =
                               [events |-> @.events \o o.ev,
                                emptyRead |-> @.emptyRead \/ o.emptyRead]]
    /\ UNCHANGED <<host, error_message, wall_ptr, heap, out, ret, ncall, grid>>

(***************************************************************************)
(* Packing, lines 224-257.                                                 *)
(***************************************************************************)
\* MaxSize taking the first vector's size instead of the largest.
MaxSizeFirst(lists) == Len(lists[1])

\* std::max_element(..., size_cmp)->size() over a non-empty list of vectors.
MaxSize(lists) ==
    LET m[i \in 1..Len(lists)] ==
            IF i = 1 THEN Len(lists[1]) ELSE Max2(m[i - 1], Len(lists[i]))
    IN m[Len(lists)]

\* PackRow filling from the start of the buffer instead of from ptr.
PackRowNoOffset(buf, idx, row, width, pad) ==
    FillRange(WriteAt(buf, width * idx, row), Len(row), width, pad)

\* Lines 231-236 and 246-251: row idx is copied to ptr = buf + width * idx
\* and [ptr + size, ptr + width) is filled with pad.
PackRow(buf, idx, row, width, pad) ==
    FillRange(WriteAt(buf, width * idx, row), width * idx + Len(row), width * (idx + 1), pad)

PackFlat(buf, lists, width, pad) ==
    LET b[i \in 0..Len(lists)] ==
            IF i = 0 THEN buf ELSE PackRow(b[i - 1], i - 1, lists[i], width, pad)
    IN b[Len(lists)]

\* Lines 225-236.  *max_nn is written first; the buffer is then written
\* whether or not malloc returned NULL.
PackNeighbours(t) ==
    /\ Running
    /\ call[t].pc = "pack_nn"
    /\ \E m \in AllocOutcomes :
        LET f == call[t]
            max_nn == MaxSize(f.loc.n_list)
            neighs == Malloc(f.args.ncells * max_nn, m)
        IN /\ out' = [out EXCEPT ![t].max_nn = Written(max_nn)]
           /\ call' = [call EXCEPT ![t] =
                  IF ~neighs.ok /\ max_nn > 0 THEN [f EXCEPT !.pc = "crashed"]
                  ELSE [f EXCEPT !.pc = "pack_nv",
                                 !.loc.neighs = [neighs EXCEPT !.data =
                                     PackFlat(@, f.loc.n_list, max_nn, NeighPad)]]]
    /\ UNCHANGED <<host, error_message, wall_ptr, heap, ret, ncall, hist, grid>>

\* Lines 238-257.
PackVertices(t) ==
    /\ Running
    /\ call[t].pc = "pack_nv"
    /\ \E m \in AllocOutcomes :
        LET f == call[t]
            max_nv == MaxSize(f.loc.vertices_list)
            verts == Malloc(f.args.ncells * max_nv, m)
        IN IF ~f.args.with_vertices
           THEN /\ out' = [out EXCEPT ![t].max_nv = Written(0)]
                /\ call' = [call EXCEPT ![t].pc = "assign"]
           ELSE IF ~verts.ok /\ max_nv > 0
           THEN /\ out' = [out EXCEPT ![t].max_nv = Written(max_nv)]
                /\ call' = [call EXCEPT ![t].pc = "crashed"]
           ELSE /\ out' = [out EXCEPT ![t].max_nv = Written(max_nv),
                                      ![t].vertices = Written(
                                          PackFlat(verts.data, f.loc.vertices_list, max_nv, QuietNaN))]
                /\ call' = [call EXCEPT ![t].pc = "assign"]
    /\ UNCHANGED <<host, error_message, wall_ptr, heap, ret, ncall, hist, grid>>

\* Lines 259-265: the buffers are released to the caller, NULL is returned
\* and the locals go out of scope.
AssignOutputs(t) ==
    /\ Running
    /\ call[t].pc = "assign"
    /\ LET l == call[t].loc
       IN out' = [out EXCEPT ![t].volumes = Written(l.vols.data),
                             ![t].bb_min = Written(l.bb_m.data),
                             ![t].bb_max = Written(l.bb_M.data),
                             ![t].neighbours = Written(l.neighs.data)]
    /\ call' = [call EXCEPT ![t].pc = "returned", ![t].loc = NoLocals]
    /\ ret' = [ret EXCEPT ![t] = "NULL"]
    /\ UNCHANGED <<host, error_message, wall_ptr, heap, ncall, hist, grid>>

\* The text line 268 builds from e.what().
ErrorText(what) ==
    <<"A C++ exception was raised while calling the voro++ wrapper. The full error message is: \"",
      what, "\".">>

\* Lines 267-270: the static string is assigned and a pointer into it returned.
Catch(t) ==
    /\ Running
    /\ call[t].pc = "catch"
    /\ error_message' = ErrorText(call[t].exc)
    /\ call' = [call EXCEPT ![t].pc = "returned"]
    /\ ret' = [ret EXCEPT ![t] = "error_message.c_str()"]
    /\ UNCHANGED <<host, wall_ptr, heap, out, ncall, hist, grid>>

Next ==
    \E t \in Threads :
        \/ Call(t)
        \/ PrepareOutputs(t)
        \/ PopulateContainer(t)
        \/ add_walls(t)
        \/ add_wall(t)
        \/ ComputeCell(t)
        \/ PackNeighbours(t)
        \/ PackVertices(t)
        \/ AssignOutputs(t)
        \/ Catch(t)

Spec == Init /\ [][Next]_vars

SpecSeq == InitSeq /\ [][Next]_vars

SpecConc == InitConc /\ [][Next]_vars

(***************************************************************************)
(* Grid sizing on its own, over domains of any shape.                      *)
(***************************************************************************)
GridExps == {-96, 0, 3, 96}

GridExtents == {ZeroExt} \cup {PowExt(e) : e \in GridExps}

GridSites == {0, 1, 5, 40}

\* The inputs whose products the model computes exactly.
GridInputs ==
    {g \in [dx : GridExtents, dy : GridExtents, dz : GridExtents, nsites : GridSites] :
        LET ve == vol_edge(g.dx, g.dy, g.dz)
        IN \/ ve.zero
           \/ /\ (g.dx.e + g.dy.e + g.dz.e) % 3 = 0
              /\ \A d \in {g.dx, g.dy, g.dz} : d.zero \/ Scalable(d.e - ve.e, g.nsites)}

InitGrid ==
    /\ InitBase("grid")
    /\ \E g \in GridInputs :
        grid = [pc |-> "in", dx |-> g.dx, dy |-> g.dy, dz |-> g.dz, nsites |-> g.nsites,
                nx |-> 0, ny |-> 0, nz |-> 0]

\* Lines 122-136.
GridSizer ==
    /\ grid.pc = "in"
    /\ LET ve == vol_edge(grid.dx, grid.dy, grid.dz)
       IN \E nx \in GridAxis(grid.dx, ve, grid.nsites),
             ny \in GridAxis(grid.dy, ve, grid.nsites),
             nz \in GridAxis(grid.dz, ve, grid.nsites) :
            grid' = [grid EXCEPT !.pc = "out", !.nx = nx, !.ny = ny, !.nz = nz]
    /\ UNCHANGED <<host, error_message, wall_ptr, heap, call, out, ret, ncall, hist>>

NextGrid == GridSizer

SpecGrid == InitGrid /\ [][NextGrid]_vars

(***************************************************************************)
(* Properties.                                                             *)
(***************************************************************************)
Returned(t) == call[t].pc = "returned"

Succeeded(t) == Returned(t) /\ ret[t] = "NULL"

Failed(t) == Returned(t) /\ ret[t] = "error_message.c_str()"

Ended(t) == call[t].pc \in {"returned", "crashed"}

\* The container of the invocation exists and add_walls has returned.
PastWalls(t) == call[t].pc \in {"loop", "pack_nn", "pack_nv", "assign"}

AllCommitted(t) ==
    /\ out[t].neighbours.set /\ out[t].max_nn.set /\ out[t].volumes.set
    /\ out[t].bb_min.set /\ out[t].bb_max.set /\ out[t].max_nv.set
    /\ (call[t].args.with_vertices => out[t].vertices.set)

\* C1: every call ends either with NULL returned and every output channel
\* committed, or with an error message returned and none of the caller's
\* buffers or widths written; no call ends in between.
C1_TwoOutcomes ==
    \A t \in Threads :
        Ended(t) => \/ Succeeded(t) /\ AllCommitted(t)
                    \/ Failed(t) /\ out[t] = NoOutputs

\* C2: with two calls running concurrently on disjoint ranges, the wall
\* attached to a call's container is the call's own and alive for as long as
\* that call is in its cell loop, and the message a failed call returned is
\* still the text of its own failure.
C2_NoSharedState ==
    \A t \in Threads :
        /\ call[t].pc = "loop" =>
              \A i \in 1..Len(call[t].loc.con.walls) :
                  LET w == heap[call[t].loc.con.walls[i]]
                  IN w.live /\ w.by = t /\ w.args = call[t].args.wall_args_arr
        /\ Failed(t) => error_message = ErrorText(call[t].exc)

\* The arguments C3 says add_walls rejects.
C3_Rejects(a) ==
    \/ a.wall_str = "sphere" /\ (a.n_wall_args # 4 \/ a.wall_args_arr[4] <= 0)
    \/ a.wall_str = "cylinder" /\ (a.n_wall_args # 7 \/ a.wall_args_arr[7] <= 0)

InvalidArgumentTexts ==
    {"invalid number of arguments for a 'sphere' wall, exactly 4 are needed",
     "the radius of a 'sphere' wall must be strictly positive",
     "invalid number of arguments for a 'cylinder' wall, exactly 7 are needed",
     "the radius of a 'cylinder' wall must be strictly positive"}

C4_DegenerateAborts ==
    \A t \in Threads :
        /\ ~hist[t].emptyRead
        /\ \A i \in 1..Len(hist[t].events) :
              hist[t].events[i].vx = <<>> => call[t].pc = "catch" \/ Failed(t)

\* What the engine returned for the cell an invocation wrote to slot k.
CellOf(t, k) ==
    hist[t].events[CHOOSE i \in 1..Len(hist[t].events) : hist[t].events[i].idx = k]

\* C5: every particle is inserted, exactly those of [start, end) are tagged,
\* every write of the cell loop goes to a local index in 0 .. ncells - 1 and
\* is the result of global particle start + index, no index is written twice,
\* and on success every index has been written.
C5_RangeToSlots ==
    \A t \in Threads :
        LET a == call[t].args
            l == call[t].loc
            ev == hist[t].events
        IN /\ l.con.built =>
                 /\ l.con.ids = [i \in 1..a.nsites |-> i - 1]
                 /\ l.po = [k \in 1..a.ncells |-> a.start + k - 1]
           /\ \A i \in 1..Len(ev) :
                 /\ ev[i].idx \in 0..(a.ncells - 1)
                 /\ ev[i].id = a.start + ev[i].idx
                 /\ ev[i].vol = EngineVolume(a.start + ev[i].idx)
                 /\ \A j \in 1..Len(ev) : ev[j].idx = ev[i].idx => j = i
           /\ Succeeded(t) =>
                 /\ Len(ev) = a.ncells
                 /\ Len(out[t].volumes.val) = a.ncells
                 /\ Len(out[t].bb_min.val) = 3 * a.ncells
                 /\ Len(out[t].bb_max.val) = 3 * a.ncells
                 /\ \A k \in 0..(a.ncells - 1) :
                       /\ \E i \in 1..Len(ev) : ev[i].idx = k
                       /\ out[t].volumes.val[k + 1] = EngineVolume(a.start + k)

C5_Witness ==
    \E t \in Threads :
        /\ Succeeded(t)
        /\ call[t].args.start > 0
        /\ call[t].args.end < call[t].args.nsites
        /\ Len(hist[t].events) = call[t].args.ncells

C7_VertexPacking ==
    \A t \in Threads :
        Succeeded(t) =>
            LET n == call[t].args.ncells
                w == out[t].max_nv.val
                buf == out[t].vertices.val
            IN IF call[t].args.with_vertices
               THEN /\ out[t].max_nv.set /\ out[t].vertices.set
                    /\ \A k \in 0..(n - 1) : Len(CellOf(t, k).vx) <= w
                    /\ \E k \in 0..(n - 1) : Len(CellOf(t, k).vx) = w
                    /\ Len(buf) = n * w
                    /\ \A k \in 0..(n - 1), j \in 0..(w - 1) :
                          LET row == CellOf(t, k).vx
                          IN buf[k * w + j + 1] = IF j < Len(row) THEN row[j + 1] ELSE QuietNaN
               ELSE /\ out[t].max_nv = Written(0)
                    /\ ~out[t].vertices.set
                    /\ out[t].volumes.set /\ out[t].bb_min.set /\ out[t].bb_max.set
                    /\ out[t].neighbours.set /\ out[t].max_nn.set

C7_Witness ==
    \E t \in Threads :
        /\ Succeeded(t)
        /\ call[t].args.with_vertices
        /\ \E i \in 1..Len(out[t].vertices.val) : out[t].vertices.val[i] = QuietNaN
        /\ \E i \in 1..Len(out[t].vertices.val) : out[t].vertices.val[i] # QuietNaN

\* The box buffers of an invocation: its own while it runs, the caller's
\* once it has returned.
BoxMin(t) == IF Succeeded(t) THEN out[t].bb_min.val ELSE call[t].loc.bb_m.data

BoxMax(t) == IF Succeeded(t) THEN out[t].bb_max.val ELSE call[t].loc.bb_M.data

\* C8: for every computed cell, with or without vertex output, the stored box
\* has bb_min <= bb_max on each axis, contains every vertex of the cell, and
\* each of its bounds is a coordinate of one of the cell's own vertices.
C8_BoxOfOwnVertices ==
    \A t \in Threads :
        PastWalls(t) \/ Succeeded(t) =>
            \A i \in 1..Len(hist[t].events) :
                LET e == hist[t].events[i]
                    nv == Len(e.vx) \div 3
                IN \A j \in 1..3 :
                      LET lo == BoxMin(t)[e.idx * 3 + j]
                          hi == BoxMax(t)[e.idx * 3 + j]
                      IN /\ lo <= hi
                         /\ \A v \in 0..(nv - 1) : lo <= e.vx[v * 3 + j] /\ e.vx[v * 3 + j] <= hi
                         /\ \E v \in 0..(nv - 1) : lo = e.vx[v * 3 + j]
                         /\ \E v \in 0..(nv - 1) : hi = e.vx[v * 3 + j]

\* C9: when a call has returned, the wall it created has been destroyed and
\* the static holds no wall; and a container only ever has walls built by its
\* own call from that call's parameters.
C9_WallCallScoped ==
    \A t \in Threads :
        /\ Returned(t) =>
              /\ wall_ptr = 0
              /\ \A w \in 1..Len(heap) : heap[w].by = t => ~heap[w].live
        /\ \A i \in 1..Len(call[t].loc.con.walls) :
              LET w == heap[call[t].loc.con.walls[i]]
              IN w.by = t /\ w.call = ncall[t] /\ w.args = call[t].args.wall_args_arr

\* C10: grid sizing yields nx, ny, nz >= 1 for every nsites >= 0 and every
\* domain, and 1 on an axis of extent 0 and on every axis when nsites is 0.
C10_GridAtLeastOne ==
    grid.pc = "out" =>
        /\ grid.nx >= 1 /\ grid.ny >= 1 /\ grid.nz >= 1
        /\ grid.nsites = 0 => grid.nx = 1 /\ grid.ny = 1 /\ grid.nz = 1
        /\ grid.dx.zero => grid.nx = 1
        /\ grid.dy.zero => grid.ny = 1
        /\ grid.dz.zero => grid.nz = 1

====
